---- MODULE Spec2Model ----
(***************************************************************************)
(* State-machine model of OFSPlugin (src/src/main.ts, lines 1-414): the    *)
(* message dispatcher _getWebMessage, the proxy acquisition flow           *)
(* (_createProxy / _callProcedureResult), the bounded poll loop of the     *)
(* "open" case, the init handshake and the outbound channel.               *)
(*                                                                         *)
(* One action is one JavaScript task: the synchronous part of a message    *)
(* handler, the continuation of an "open" handler after one 100 ms sleep,  *)
(* or the settlement of the promise returned by the init extension point.  *)
(***************************************************************************)
EXTENDS Integers, Sequences, FiniteSets, TLC

(***************************************************************************)
(* Bounds of the model.                                                    *)
(***************************************************************************)
\* open envelopes that take the token path (each one suspends a handler)
MaxOpens == 1
\* the same, in the specification of overlapping opens
MaxOverlap == 2
\* init extension points running at the same time (promises not yet settled)
MaxInits == 1
\* calls of setup by one instance, the constructor's included
MaxListeners == 2

(***************************************************************************)
(* Program constants.                                                      *)
(***************************************************************************)
\* "if (iteration > 30)" in the poll loop of case "open"
MaxIterations == 30

(***************************************************************************)
(* JavaScript values.  undefined and null are kept apart from strings.     *)
(***************************************************************************)
Undefined == "<undefined>"
Null == "<null>"

\* a == b for the values a call id can take: the two nullish values are
\* loosely equal to each other and to nothing else.
LooseEq(a, b) == (a = b) \/ ({a, b} \subseteq {Undefined, Null})

\* String(v), applied by localStorage.setItem to the value it is given
ToStr(v) == IF v = Undefined THEN "undefined" ELSE IF v = Null THEN "null" ELSE v

\* a value of type any: an object (a record of its fields) or a string
JObj(r) == [t |-> "object", v |-> r]
JStr(s) == [t |-> "string", text |-> s]

\* JSON.stringify / JSON.parse of a stored property
JSONstringify(v) == <<"json", v>>
JSONparse(s) == s[2]

\* { ...base, ...data }: the fields of data win
Spread(base, data) == data @@ base

(***************************************************************************)
(* Inputs: application registries, credentials, token responses.           *)
(***************************************************************************)
\* Object.entries order of the "applications" object of an init envelope
RegNone == << [key |-> "k0", type |-> "other", resourceUrl |-> "U0"] >>
RegTwo == << [key |-> "k0", type |-> "other", resourceUrl |-> "U0"],
             [key |-> "k2", type |-> "ofs", resourceUrl |-> "U2"],
             [key |-> "k1", type |-> "ofs", resourceUrl |-> "U1"] >>

CredsFull == [ofsInstance |-> "inst", ofsClientId |-> "cid", ofsClientSecret |-> "sec"]
CredsNoSecret == [ofsInstance |-> "inst", ofsClientId |-> "cid"]
CredsEmptyId == [ofsInstance |-> "inst", ofsClientId |-> "", ofsClientSecret |-> "sec"]
SecuredDatas == {CredsFull, CredsNoSecret, CredsEmptyId}

\* the identifiers _generateCallId returns, in the order it returns them
CallIds == <<"X1", "X2", "X3", "X4">>
\* call ids a callProcedureResult can carry: a generated one, a foreign one, null
ResultCallIds(n) == {CallIds[i] : i \in 1..n} \cup {"foreign", Null}

ResultDatas ==
    { JObj([status |-> "success", token |-> "T1"]),
      JObj([status |-> "error"]),
      JObj([message |-> "no status"]),
      JStr("failed") }

(***************************************************************************)
(* OFSMessage                                                              *)
(***************************************************************************)
\* new OFSMessage(): the field initialisers
NewOFSMessage == [apiVersion |-> -1, method |-> "no method"]

\* message.data as it reaches the listener: text that is not JSON, JSON
\* that is not an object, or a JSON object with its fields
RawGarbage == { [json |-> FALSE, text |-> "not json"], [json |-> FALSE, text |-> ""] }
RawNonObject == { [json |-> TRUE, object |-> FALSE, text |-> "5"] }
RawOf(fields) == [json |-> TRUE, object |-> TRUE, fields |-> fields]

Envelope(m) == [apiVersion |-> 1, method |-> m]

RawInit ==
    { RawOf(Envelope("init")) }
    \cup { RawOf(Envelope("init") @@ [applications |-> r]) : r \in {RegNone, RegTwo} }
RawOpen == { RawOf(Envelope("open") @@ [entity |-> "activity"]) }
             \cup { RawOf(Envelope("open") @@ [entity |-> "activity", securedData |-> s]) :
                      s \in SecuredDatas }
RawResult(n) ==
    { RawOf(Envelope("callProcedureResult")) }
    \cup { RawOf(Envelope("callProcedureResult") @@ [callId |-> c]) : c \in ResultCallIds(n) }
    \cup { RawOf(Envelope("callProcedureResult") @@ [resultData |-> d]) : d \in ResultDatas }
    \cup { RawOf(Envelope("callProcedureResult") @@ [callId |-> c, resultData |-> d]) :
             c \in ResultCallIds(n), d \in ResultDatas }
RawPlain == { RawOf(Envelope(m)) : m \in {"updateResult", "wakeup", "error"} }
RawUnknown == { RawOf(Envelope(m)) : m \in {"wakeUp", "close"} }
RawNoMethod == { RawOf([apiVersion |-> 1]), RawOf(NewOFSMessage) }
\* the inputs of the two specifications
RawInputs == RawGarbage \cup RawNonObject \cup RawNoMethod \cup RawInit
             \cup RawOpen \cup RawResult(MaxOpens) \cup RawPlain \cup RawUnknown
RawOverlap ==
    { RawOf(Envelope("init") @@ [applications |-> r]) : r \in {RegNone, RegTwo} }
    \cup { RawOf(Envelope("open") @@ [entity |-> "activity"]),
           RawOf(Envelope("open") @@ [entity |-> "activity", securedData |-> CredsFull]) }
    \cup { RawOf(Envelope("callProcedureResult") @@ [callId |-> c, resultData |-> d]) :
             c \in {CallIds[i] : i \in 1..MaxOverlap},
             d \in {JObj([status |-> "success", token |-> "T1"])} }

\* JSON.parse(str) throws
JSONparseThrows(raw) == ~raw.json

\* parse without the try/catch: the SyntaxError of JSON.parse escapes
parse_NoCatch(raw) ==
    IF JSONparseThrows(raw) THEN [apiVersion |-> 0, method |-> "SyntaxError"]
    ELSE IF raw.object THEN Spread(NewOFSMessage, raw.fields)
    ELSE NewOFSMessage

\* OFSMessage.parse: Object.assign(new OFSMessage(), JSON.parse(str)); the
\* defaults on a parse error.  Object.assign copies the own enumerable
\* properties of an object and nothing from a number or null.
parse(raw) ==
    IF JSONparseThrows(raw) THEN NewOFSMessage
    ELSE IF raw.object THEN Spread(NewOFSMessage, raw.fields)
    ELSE NewOFSMessage

Has(m, f) == f \in DOMAIN m
Get(m, f) == IF Has(m, f) THEN m[f] ELSE Undefined

(***************************************************************************)
(* The frame the plugin runs in.                                           *)
(***************************************************************************)
\* A string the code takes apart is the sequence of its pieces: ":" and "/"
\* are pieces of their own and no other piece contains either of them.
Slashes == <<":", "/", "/">>
Url(scheme, host, path) == <<scheme>> \o Slashes \o host \o path

Documents ==
    { [referrer |-> Url("https", <<"host.example">>, <<"/", "app", "/", "path">>),
       ancestorOrigins |-> <<>>],
      [referrer |-> <<>>, ancestorOrigins |-> <<Url("https", <<"host.example">>, <<>>)>>],
      [referrer |-> <<>>, ancestorOrigins |-> <<>>] }

\* results an overridden init extension point resolves with
InitResults ==
    { [apiVersion |-> 1, method |-> "initEnd"],
      [apiVersion |-> 1, method |-> "initEnd", wakeupNeeded |-> TRUE] }

\* this._proxy before any client is constructed
NoProxy == [kind |-> "unset"]

VARIABLES
    localStorage,   \* window.localStorage under "<tag>.": applications, baseURL
    proxy,          \* this._proxy
    callId,         \* globalThis.callId
    waitForProxy,   \* globalThis.waitForProxy (undefined, which is falsy, until the first open)
    document,       \* document.referrer, document.location.ancestorOrigins
    pc,             \* per token-path open handler: "idle", "sleep", "done"
    iteration,      \* per token-path open handler: its local variable iteration
    timers,         \* pending setTimeout(resolve, 100) callbacks, in firing order
    initPc,         \* per init extension point that returned a pending promise: "idle", "running"
    obs,            \* history: per sleeping open handler, what happened during its wait
    request,        \* history: the token request that set callId, the client last built from a token
    listeners,      \* number of "message" listeners this instance has added to the window
    stepLog         \* what the last task did, in program order

vars == <<localStorage, proxy, callId, waitForProxy, document, pc, iteration, timers,
          initPc, obs, request, listeners, stepLog>>

Handlers == 1..(IF MaxOpens < MaxOverlap THEN MaxOverlap ELSE MaxOpens)
InitSlots == 1..MaxInits

(***************************************************************************)
(* Persisted properties                                                    *)
(***************************************************************************)
\* localStorage.getItem: the stored string, or null (<<>>) when never stored
getInitProperty(property) == localStorage[property]

\* localStorage.setItem(`${tag}.${property}`, data)
storeInitProperty(store, property, data) == [store EXCEPT ![property] = data]

(***************************************************************************)
(* Outbound messaging.  An operator of this section returns the log of     *)
(* what the call does: the envelope handed to _sendWebMessage ("send")     *)
(* and the envelope posted to the parent frame ("post").                   *)
(***************************************************************************)
\* document.referrer || (ancestorOrigins && ancestorOrigins[0]) || ""
originUrl ==
    IF document.referrer # <<>> THEN document.referrer
    ELSE IF Len(document.ancestorOrigins) > 0 THEN document.ancestorOrigins[1]
    ELSE <<>>

\* url.indexOf(pattern): the position of the first occurrence, from 0, or -1
IndexOf(url, pattern) ==
    LET at == {i \in 1..(Len(url) - Len(pattern) + 1) :
                 SubSeq(url, i, i + Len(pattern) - 1) = pattern}
    IN IF at = {} THEN -1 ELSE (CHOOSE i \in at : \A j \in at : i <= j) - 1

\* url.split("/")
RECURSIVE Split(_)
Split(url) ==
    LET at == {i \in 1..Len(url) : url[i] = "/"} IN
    IF at = {} THEN <<url>>
    ELSE LET i == CHOOSE k \in at : \A j \in at : k <= j
         IN <<SubSeq(url, 1, i - 1)>> \o Split(SubSeq(url, i + 1, Len(url)))

\* "https://" + parts[n]: a missing element is concatenated as "undefined"
HttpsPlus(parts, n) ==
    <<"https">> \o Slashes \o (IF n < Len(parts) THEN parts[n + 1] ELSE <<"undefined">>)

_getOriginURL(url) ==
    IF url # <<>>
    THEN IF IndexOf(url, Slashes) > -1 THEN HttpsPlus(Split(url), 2)
         ELSE HttpsPlus(Split(url), 0)
    ELSE <<>>

\* _sendWebMessage without the test of originUrl
_sendWebMessage_Unguarded(data) ==
    << <<"send", data>>, <<"post", data, _getOriginURL(originUrl)>> >>

\* parent.postMessage(data, targetOrigin), when originUrl is truthy
_sendWebMessage(data) ==
    << <<"send", data>> >>
    \o (IF originUrl # <<>> THEN << <<"post", data, _getOriginURL(originUrl)>> >> ELSE <<>>)

sendMessage(method, data) == _sendWebMessage(Spread([apiVersion |-> 1, method |-> method], data))

callProcedure(data) == sendMessage("callProcedure", data)

\* The arguments of a call of setup: each is <<>> when omitted (or undefined)
\* and <<v>> when v is supplied; Param is the value the parameter then has.
NoArguments ==
    [sendInitData |-> <<>>, enableBackButton |-> <<>>, showHeader |-> <<>>,
     sendMessageAsJsObject |-> <<>>, dataItems |-> <<>>]
Param(argument, default) == IF argument = <<>> THEN default ELSE argument[1]

\* the envelope the body of setup builds
ReadyMessage == [apiVersion |-> 1, method |-> "ready", sendInitData |-> TRUE]

\* setup(sendInitData = true, enableBackButton = true, showHeader = true,
\*       sendMessageAsJsObject = false, dataItems?): the body registers the
\* listener and sends the ready envelope; it reads none of its parameters.
setup(arguments) ==
    LET sendInitData == Param(arguments.sendInitData, TRUE)
        enableBackButton == Param(arguments.enableBackButton, TRUE)
        showHeader == Param(arguments.showHeader, TRUE)
        sendMessageAsJsObject == Param(arguments.sendMessageAsJsObject, FALSE)
        dataItems == Param(arguments.dataItems, Undefined)
    IN << <<"addEventListener", "message">> >> \o _sendWebMessage(ReadyMessage)

(***************************************************************************)
(* History kept for the properties (no code reads it).                     *)
(***************************************************************************)
NoObs == [ unsetAtArrival |-> FALSE,   \* proxy was unset when the open arrived
           ownResult |-> FALSE,        \* a result carrying its own call id was processed
           matched |-> FALSE,          \* a result was accepted as the match
           success |-> FALSE,          \* a result was accepted as the match and built the proxy
           lastBuild |-> "none" ]      \* last construction of the proxy: none, token, inline

NoRequest == [ url |-> "",             \* base URL persisted by the request that set callId
               client |-> NoProxy ]    \* client the last successful match had to build

\* the open extension point runs: what it sees, and the history of its wait
OpenEvent(h, how) ==
    <<"open", [handler |-> h, how |-> how, proxy |-> proxy, expected |-> request.client,
               wait |-> IF h = 0 THEN NoObs ELSE obs[h]]>>

\* the state once the constructor has returned: setup has run unless initOverride
constructor(documents, initOverride) ==
    /\ localStorage = [applications |-> <<>>, baseURL |-> <<>>]
    /\ proxy = NoProxy
    /\ callId = Undefined
    /\ waitForProxy = FALSE
    /\ document \in documents
    /\ pc = [h \in Handlers |-> "idle"]
    /\ iteration = [h \in Handlers |-> 0]
    /\ timers = <<>>
    /\ initPc = [i \in InitSlots |-> "idle"]
    /\ obs = [h \in Handlers |-> NoObs]
    /\ request = NoRequest
    /\ listeners = (IF initOverride THEN 0 ELSE 1)
    /\ stepLog = (IF initOverride THEN <<>> ELSE setup(NoArguments))

\* new OFSPlugin(tag): initOverride false
InitIn(documents) == constructor(documents, FALSE)

\* the frame has a referrer
Init == InitIn({d \in Documents : d.referrer # <<>>})

\* any frame
InitFrame == InitIn(Documents)

(***************************************************************************)
(* Dispatch: the switch of _getWebMessage.  The actions Case... are the    *)
(* task of a message event in a window where the instance has registered   *)
(* one listener.                                                           *)
(***************************************************************************)
CaseLabels == {"init", "open", "updateResult", "callProcedureResult",
               "wakeup", "error", "no method"}

\* the switch with the label "wakeUp" where the host sends "wakeup"
Route_OtherCasing(method) ==
    IF method \in (CaseLabels \ {"wakeup"}) \cup {"wakeUp"} THEN method ELSE "default"

\* the case the switch selects for parsed_message.method
Route(method) == IF method \in CaseLabels THEN method ELSE "default"

\* console.log("Message received", message.data): what the properties need of it
Received(raw) ==
    LET message == parse(raw) IN
    <<"received", [method |-> message.method, apiVersion |-> message.apiVersion,
                   parsable |-> (raw.json /\ raw.object),
                   registry |-> Has(message, "applications")]>>

\* an extension point whose shipped body returns without throwing
ExtensionPoint_Silent(name, failure, overridden) ==
    << <<"ext", name, IF overridden THEN "override" ELSE "shipped">> >>

\* An extension point that throws as shipped.  The embedding plugin is not
\* part of the repository: an invocation runs the shipped body or an override.
ExtensionPoint(name, failure, overridden) ==
    << <<"ext", name, IF overridden THEN "override" ELSE "shipped">> >>
    \o (IF overridden THEN <<>> ELSE << <<"throw", failure>> >>)

(***************************************************************************)
(* case "init": _storeInitData, then _init                                 *)
(***************************************************************************)
\* if (message.applications) storeInitProperty("applications", JSON.stringify(...))
_storeInitData(message) ==
    IF Has(message, "applications")
    THEN storeInitProperty(localStorage, "applications", JSONstringify(message.applications))
    ELSE localStorage

_storeInitDataLog(message) ==
    IF Has(message, "applications")
    THEN << <<"store", "applications", message.applications>> >>
    ELSE <<>>

\* OFSPlugin.init as shipped: a promise already resolved with the minimal initEnd
DefaultInitEnd == [apiVersion |-> 1, method |-> "initEnd"]

\* _init that sends the minimal initEnd without awaiting the promise of init
_init_NotAwaited == << <<"ext", "init">> >> \o _sendWebMessage(DefaultInitEnd)

\* _init: this.init(message).then(...): what the call does before the promise settles
_init == << <<"ext", "init">> >>

\* the .then callback of _init, run once the promise of init has resolved
_initThen(messageData) == << <<"resolved", messageData>> >> \o _sendWebMessage(messageData)

CaseInit(raw, overridden) ==
    LET message == parse(raw) IN
    /\ listeners = 1
    /\ Route(message.method) = "init"
    /\ localStorage' = _storeInitData(message)
    /\ IF overridden
       THEN \E i \in InitSlots :
              /\ initPc[i] = "idle"
              /\ \A j \in InitSlots : j < i => initPc[j] # "idle"
              /\ initPc' = [initPc EXCEPT ![i] = "running"]
              /\ stepLog' = << Received(raw), <<"case", "init">> >> \o _storeInitDataLog(message) \o _init
       ELSE /\ stepLog' = << Received(raw), <<"case", "init">> >> \o _storeInitDataLog(message) \o _init
                            \o _initThen(DefaultInitEnd)
            /\ UNCHANGED initPc
    /\ UNCHANGED <<listeners, proxy, callId, waitForProxy, document, pc, iteration, timers, obs, request>>

\* the promise returned by an overridden init resolves
InitResolve(i, messageData) ==
    /\ initPc[i] = "running"
    /\ initPc' = [initPc EXCEPT ![i] = "idle"]
    /\ stepLog' = _initThen(messageData)
    /\ UNCHANGED <<listeners, localStorage, proxy, callId, waitForProxy, document, pc, iteration,
                   timers, obs, request>>

\* the promise returned by an overridden init rejects: no .then callback runs
InitReject(i) ==
    /\ initPc[i] = "running"
    /\ initPc' = [initPc EXCEPT ![i] = "idle"]
    /\ stepLog' = << <<"rejected">> >>
    /\ UNCHANGED <<listeners, localStorage, proxy, callId, waitForProxy, document, pc, iteration,
                   timers, obs, request>>

(***************************************************************************)
(* case "open": _createProxy, the poll loop, then the open extension point *)
(***************************************************************************)
\* _generateCallId for the n-th token request (62 random characters: two
\* requests never get the same identifier)
_generateCallId(n) == CallIds[n]

\* the loop without its "return": the body runs for every "ofs" entry
TokenRequests_NoReturn(applications) ==
    SelectSeq([i \in 1..Len(applications) |-> i], LAMBDA i : applications[i].type = "ofs")

\* the entries of the registry for which the body of "if (application.type
\* == "ofs")" runs: the loop returns from inside the first one
TokenRequests(applications) ==
    LET ofs == {i \in 1..Len(applications) : applications[i].type = "ofs"} IN
    IF ofs = {} THEN <<>> ELSE << CHOOSE i \in ofs : \A j \in ofs : i <= j >>

Truthy(object, field) == Has(object, field) /\ object[field] # ""

\* message.securedData && ofsInstance && ofsClientId && ofsClientSecret
HasCredentials(message) ==
    /\ Has(message, "securedData")
    /\ Truthy(message.securedData, "ofsInstance")
    /\ Truthy(message.securedData, "ofsClientId")
    /\ Truthy(message.securedData, "ofsClientSecret")

\* _createProxy that looks at the inline credentials first
_createProxyPath_CredentialsFirst(stored, message) ==
    IF HasCredentials(message) THEN "inline"
    ELSE IF stored # <<>> /\ TokenRequests(JSONparse(stored)) # <<>> THEN "token"
    ELSE "none"

\* the branch _createProxy takes, given the stored registry and the envelope
_createProxyPath(stored, message) ==
    IF stored # <<>> /\ TokenRequests(JSONparse(stored)) # <<>> THEN "token"
    ELSE IF HasCredentials(message) THEN "inline"
    ELSE "none"

\* new OFS({instance, clientId, clientSecret})
CredentialsClient(securedData) ==
    [kind |-> "credentials", instance |-> securedData.ofsInstance,
     clientId |-> securedData.ofsClientId, clientSecret |-> securedData.ofsClientSecret]

\* the data of the token request for one registry entry
callProcedureData(id, application) ==
    [callId |-> id, procedure |-> "getAccessToken",
     params |-> [applicationKey |-> application.key]]

\* the body of the "ofs" branch for the entries in requests, in order
RECURSIVE TokenRequestLog(_, _, _)
TokenRequestLog(applications, requests, id) ==
    IF requests = <<>> THEN <<>>
    ELSE LET application == applications[Head(requests)] IN
         << <<"store", "baseURL", ToStr(application.resourceUrl)>>, <<"callId", id>> >>
         \o callProcedure(callProcedureData(id, application))
         \o << <<"wait", TRUE>> >>
         \o TokenRequestLog(applications, Tail(requests), id)

\* the credentials an open envelope carries, if any
SecuredData(message) ==
    IF Has(message, "securedData") THEN <<"securedData", message.securedData>>
    ELSE <<"securedData">>

\* globalThis.waitForProxy = false; this._createProxy(parsed_message); while (...)
CaseOpen(raw, slots) ==
    LET message == parse(raw)
        stored == getInitProperty("applications")
        path == _createProxyPath(stored, message)
    IN
    /\ listeners = 1
    /\ Route(message.method) = "open"
    /\ CASE path = "token" ->
              LET applications == JSONparse(stored)
                  requests == TokenRequests(applications)
                  last == applications[requests[Len(requests)]]
              IN
              \E h \in 1..slots :
                /\ pc[h] = "idle"
                /\ \A g \in 1..slots : g < h => pc[g] # "idle"
                /\ localStorage' = storeInitProperty(localStorage, "baseURL",
                                                     <<"text", ToStr(last.resourceUrl)>>)
                /\ callId' = _generateCallId(h)
                /\ waitForProxy' = TRUE
                /\ pc' = [pc EXCEPT ![h] = "sleep"]
                /\ iteration' = [iteration EXCEPT ![h] = 0]
                /\ timers' = Append(timers, h)
                /\ obs' = [obs EXCEPT ![h] = [NoObs EXCEPT !.unsetAtArrival = (proxy = NoProxy)]]
                /\ request' = [request EXCEPT !.url = ToStr(last.resourceUrl)]
                /\ stepLog' = << Received(raw), <<"case", "open">>, SecuredData(message),
                                 <<"wait", FALSE>> >>
                               \o TokenRequestLog(applications, requests, _generateCallId(h))
                               \o << <<"sleep", h>> >>
                /\ UNCHANGED proxy
         [] path = "inline" ->
              /\ proxy' = CredentialsClient(message.securedData)
              /\ waitForProxy' = FALSE
              /\ obs' = [h \in Handlers |->
                           IF pc[h] = "sleep" THEN [obs[h] EXCEPT !.lastBuild = "inline"]
                           ELSE obs[h]]
              /\ stepLog' = << Received(raw), <<"case", "open">>, SecuredData(message),
                               <<"wait", FALSE>>,
                               <<"proxy", CredentialsClient(message.securedData)>>,
                               <<"open", [handler |-> 0, how |-> "sync",
                                          proxy |-> CredentialsClient(message.securedData),
                                          expected |-> request.client, wait |-> NoObs]>> >>
              /\ UNCHANGED <<localStorage, callId, pc, iteration, timers, request>>
         [] path = "none" ->
              /\ waitForProxy' = FALSE
              /\ stepLog' = << Received(raw), <<"case", "open">>, SecuredData(message),
                               <<"wait", FALSE>>, OpenEvent(0, "sync") >>
              /\ UNCHANGED <<localStorage, proxy, callId, pc, iteration, timers, obs, request>>
    /\ UNCHANGED <<listeners, document, initPc>>

\* a bound check that lets one more poll through
TimedOut_OneMore(n) == n > MaxIterations + 1

\* "if (iteration > 30)" after iteration++
TimedOut(n) == n > MaxIterations

\* The timer of handler h fires: "Slept for 100 ms", iteration++, the bound
\* check, the loop condition, and this.open(...) once the loop is left.
\* Timers of equal delay fire in the order they were set.
Poll(h) ==
    /\ timers # <<>> /\ Head(timers) = h
    /\ pc[h] = "sleep"
    /\ IF TimedOut(iteration[h] + 1)
       THEN /\ waitForProxy' = FALSE
            /\ pc' = [pc EXCEPT ![h] = "done"]
            /\ iteration' = [iteration EXCEPT ![h] = 0]
            /\ timers' = Tail(timers)
            /\ obs' = [obs EXCEPT ![h] = NoObs]
            /\ stepLog' = << <<"wake", h>>, <<"console.error", "Proxy creation problem">>,
                             <<"wait", FALSE>>, OpenEvent(h, "timeout") >>
       ELSE IF waitForProxy
       THEN /\ iteration' = [iteration EXCEPT ![h] = @ + 1]
            /\ timers' = Append(Tail(timers), h)
            /\ stepLog' = << <<"wake", h>>, <<"sleep", h>> >>
            /\ UNCHANGED <<waitForProxy, pc, obs>>
       ELSE /\ pc' = [pc EXCEPT ![h] = "done"]
            /\ iteration' = [iteration EXCEPT ![h] = 0]
            /\ timers' = Tail(timers)
            /\ obs' = [obs EXCEPT ![h] = NoObs]
            /\ stepLog' = << <<"wake", h>>, OpenEvent(h, "flag") >>
            /\ UNCHANGED waitForProxy
    /\ UNCHANGED <<listeners, localStorage, proxy, callId, document, initPc, request>>

(***************************************************************************)
(* case "callProcedureResult": _callProcedureResult                        *)
(***************************************************************************)
\* parsed_message.callId == globalThis.callId
IsMatch(message) == LooseEq(Get(message, "callId"), callId)

\* "status" in resultData && resultData.status == "success"
IsSuccess(resultData) == Has(resultData.v, "status") /\ resultData.v.status = "success"

\* a client built without the returned token
TokenClient_NoToken(baseURLOFS, resultData) ==
    [kind |-> "token", baseURL |-> baseURLOFS, token |-> Undefined]

\* new OFS({baseURL: baseURLOFS, token: resultData.token})
TokenClient(baseURLOFS, resultData) ==
    [kind |-> "token", baseURL |-> baseURLOFS, token |-> Get(resultData.v, "token")]

\* what the matched branch does with the envelope:
\*   "build"  the proxy is built and the wait cleared
\*   "throw"  the "in" operator is applied to a value that is no object
\*   "log"    no resultData: the problem is logged
\*   "skip"   resultData without a successful status: nothing at all
MatchedOutcome(message) ==
    IF ~Has(message, "resultData") THEN "log"
    ELSE IF message.resultData.t # "object" THEN "throw"
    ELSE IF IsSuccess(message.resultData) THEN "build"
    ELSE "skip"

\* history: the envelope carries the very call id of the pending token request
SameId(message) == Has(message, "callId") /\ message.callId = callId

ObserveResult(message, built) ==
    [h \in Handlers |->
       IF pc[h] # "sleep" THEN obs[h]
       ELSE [obs[h] EXCEPT
               !.ownResult = @ \/ (Get(message, "callId") = _generateCallId(h)),
               !.matched = @ \/ SameId(message),
               !.success = @ \/ built,
               !.lastBuild = IF built THEN "token" ELSE @]]

CaseCallProcedureResult(raw) ==
    LET message == parse(raw)
        outcome == MatchedOutcome(message)
        client == TokenClient(getInitProperty("baseURL"), message.resultData)
        sameId == SameId(message)
    IN
    /\ listeners = 1
    /\ Route(message.method) = "callProcedureResult"
    /\ IF IsMatch(message)
       THEN CASE outcome = "build" ->
                   /\ proxy' = client
                   /\ waitForProxy' = FALSE
                   /\ obs' = ObserveResult(message, TRUE)
                   /\ request' = [request EXCEPT
                                    !.client = [kind |-> "token",
                                                baseURL |-> <<"text", request.url>>,
                                                token |-> message.resultData.v.token]]
                   /\ stepLog' = << Received(raw), <<"case", "callProcedureResult">>,
                                    <<"match", outcome, sameId>>,
                                    <<"proxy", client>>, <<"wait", FALSE>> >>
            [] outcome = "throw" ->
                   /\ obs' = ObserveResult(message, FALSE)
                   /\ stepLog' = << Received(raw), <<"case", "callProcedureResult">>,
                                    <<"match", outcome, sameId>>,
                                    <<"throw", "TypeError">> >>
                   /\ UNCHANGED <<proxy, waitForProxy, request>>
            [] outcome = "log" ->
                   /\ obs' = ObserveResult(message, FALSE)
                   /\ stepLog' = << Received(raw), <<"case", "callProcedureResult">>,
                                    <<"match", outcome, sameId>>,
                                    <<"console.error", "Problems processing the Token Response">> >>
                   /\ UNCHANGED <<proxy, waitForProxy, request>>
            [] outcome = "skip" ->
                   /\ obs' = ObserveResult(message, FALSE)
                   /\ stepLog' = << Received(raw), <<"case", "callProcedureResult">>,
                                    <<"match", outcome, sameId>> >>
                   /\ UNCHANGED <<proxy, waitForProxy, request>>
       ELSE \E overridden \in BOOLEAN :
            /\ obs' = ObserveResult(message, FALSE)
            /\ stepLog' = << Received(raw), <<"case", "callProcedureResult">>,
                             <<"mismatch", sameId>> >>
                           \o ExtensionPoint("callProcedureResult",
                                             "CALLPROCEDURERESULT Method not implemented.",
                                             overridden)
            /\ UNCHANGED <<proxy, waitForProxy, request>>
    /\ UNCHANGED <<listeners, localStorage, callId, document, pc, iteration, timers, initPc>>

(***************************************************************************)
(* cases "updateResult", "wakeup", "error", "no method" and default        *)
(***************************************************************************)
NotImplemented(method) ==
    CASE method = "updateResult" -> "UPDATERESULT Method not implemented."
      [] method = "wakeup" -> "WAKEUP Method not implemented."
      [] method = "error" -> "ERROR Method not implemented."

CaseExtension(raw, overridden) ==
    LET message == parse(raw) IN
    /\ listeners = 1
    /\ Route(message.method) \in {"updateResult", "wakeup", "error"}
    /\ stepLog' = << Received(raw), <<"case", Route(message.method)>> >>
                   \o ExtensionPoint(Route(message.method),
                                     NotImplemented(Route(message.method)), overridden)
    /\ UNCHANGED <<listeners, localStorage, proxy, callId, waitForProxy, document, pc, iteration,
                   timers, initPc, obs, request>>

CaseNoMethod(raw) ==
    LET message == parse(raw) IN
    /\ listeners = 1
    /\ Route(message.method) = "no method"
    /\ stepLog' = << Received(raw), <<"case", "no method">>, <<"console.warn", "Message discarded">> >>
    /\ UNCHANGED <<listeners, localStorage, proxy, callId, waitForProxy, document, pc, iteration,
                   timers, initPc, obs, request>>

CaseDefault(raw) ==
    LET message == parse(raw) IN
    /\ listeners = 1
    /\ Route(message.method) = "default"
    /\ stepLog' = << Received(raw), <<"case", "default">>, <<"throw", "Unknown method">> >>
    /\ UNCHANGED <<listeners, localStorage, proxy, callId, waitForProxy, document, pc, iteration,
                   timers, initPc, obs, request>>

(***************************************************************************)
(* The specification                                                       *)
(***************************************************************************)
Next ==
    \/ \E raw \in RawInputs : CaseInit(raw, FALSE)
    \/ \E raw \in RawInputs : CaseOpen(raw, MaxOpens)
    \/ \E raw \in RawInputs : CaseCallProcedureResult(raw)
    \/ \E raw \in RawInputs, overridden \in BOOLEAN : CaseExtension(raw, overridden)
    \/ \E raw \in RawInputs : CaseNoMethod(raw)
    \/ \E raw \in RawInputs : CaseDefault(raw)
    \/ \E h \in 1..MaxOpens : Poll(h)

Spec == Init /\ [][Next]_vars

\* A timer that was set fires: the browser runs the callback of setTimeout.
FairSpec == Spec /\ \A h \in 1..MaxOpens : WF_vars(Poll(h))

(***************************************************************************)
(* The init handshake in any frame: the embedding plugin may override      *)
(* init with a promise that settles later.                                 *)
(***************************************************************************)
RawHandshake == RawGarbage \cup RawInit \cup RawPlain

NextHandshake ==
    \/ \E raw \in RawHandshake, overridden \in BOOLEAN : CaseInit(raw, overridden)
    \/ \E raw \in RawHandshake, overridden \in BOOLEAN : CaseExtension(raw, overridden)
    \/ \E raw \in RawHandshake : CaseNoMethod(raw)
    \/ \E i \in InitSlots, messageData \in InitResults : InitResolve(i, messageData)
    \/ \E i \in InitSlots : InitReject(i)

SpecHandshake == InitFrame /\ [][NextHandshake]_vars

(***************************************************************************)
(* Overlapping opens: MaxOverlap handlers may be suspended at once; the    *)
(* host sends init, open and callProcedureResult envelopes only, the       *)
(* plugin keeps the shipped init, and the frame has a referrer.            *)
(***************************************************************************)
NextOverlap ==
    \/ \E raw \in RawOverlap : CaseInit(raw, FALSE)
    \/ \E raw \in RawOverlap : CaseOpen(raw, MaxOverlap)
    \/ \E raw \in RawOverlap : CaseCallProcedureResult(raw)
    \/ \E h \in 1..MaxOverlap : Poll(h)

SpecOverlap == Init /\ [][NextOverlap]_vars


TypeOK ==
    /\ waitForProxy \in BOOLEAN
    /\ callId \in {Undefined} \cup {CallIds[i] : i \in Handlers}
    /\ pc \in [Handlers -> {"idle", "sleep", "done"}]
    /\ iteration \in [Handlers -> 0..MaxIterations]
    /\ initPc \in [InitSlots -> {"idle", "running"}]
    /\ listeners \in 0..MaxListeners

(***************************************************************************)
(* Reading the log of the last task                                        *)
(***************************************************************************)
Indices(kind) == {i \in 1..Len(stepLog) : stepLog[i][1] = kind}
HasEvent(kind) == Indices(kind) # {}

\* envelopes handed to _sendWebMessage / posted to the parent frame
Sends(method) == {i \in Indices("send") : stepLog[i][2].method = method}
Posts(method) == {i \in Indices("post") : stepLog[i][2].method = method}

\* the task selected this case of the switch
InCase(label) == \E c \in Indices("case") : stepLog[c][2] = label

\* invocations of the open extension point by handlers that were suspended
SuspendedOpens == {stepLog[i][2] : i \in {j \in Indices("open") : stepLog[j][2].handler # 0}}

\* the task assigned false to waitForProxy / assigned the proxy
WaitCleared == \E w \in Indices("wait") : stepLog[w][2] = FALSE
ProxyBuilt == HasEvent("proxy")

\* a token request is outstanding: a suspended open waits for the id in callId
Pending == \E h \in Handlers : pc[h] = "sleep" /\ _generateCallId(h) = callId

\* the persisted registry has an entry of type "ofs"
HasOfs(stored) ==
    stored # <<>> /\ \E i \in DOMAIN JSONparse(stored) : JSONparse(stored)[i].type = "ofs"

\* the first entry of type "ofs", in Object.entries order
FirstOfs(registry) ==
    registry[CHOOSE i \in DOMAIN registry :
               registry[i].type = "ofs" /\ \A j \in 1..(i - 1) : registry[j].type # "ofs"]

(***************************************************************************)
(* C1  open never runs while its token request is outstanding              *)
(***************************************************************************)
\* C1: the open extension point of an open that took the token path runs
\* only after a callProcedureResult carrying the call id generated for that
\* open has been processed, or after that open's own bounded wait elapsed.
C1_OpenAfterOwnResultOrBound ==
    \A e \in SuspendedOpens : e.wait.ownResult \/ e.how = "timeout"

(***************************************************************************)
(* C2  call correlation                                                    *)
(***************************************************************************)
\* C2: while the token request with id X is outstanding, a
\* callProcedureResult resolves the acquisition (clears the wait) if and
\* only if its callId equals X; one with another callId goes to the
\* callProcedureResult extension point and touches neither proxy nor wait.
C2_ResolvedIffSameCallId ==
    Pending =>
      /\ \A m \in Indices("match") : stepLog[m][3] /\ WaitCleared
      /\ \A m \in Indices("mismatch") :
           /\ ~stepLog[m][2]
           /\ \E x \in Indices("ext") : stepLog[x][2] = "callProcedureResult"
           /\ ~ProxyBuilt /\ ~HasEvent("wait")

(***************************************************************************)
(* C4  a failed or malformed token response                                *)
(***************************************************************************)
\* C4: a callProcedureResult that carries the outstanding call id and
\* reports a failure, or has no usable resultData, clears the wait itself
\* and builds no proxy.
C4_FailureReleasesSuspension ==
    \A m \in Indices("match") :
      (Pending /\ stepLog[m][3] /\ stepLog[m][2] # "build") => (~waitForProxy /\ ~ProxyBuilt)

C3_WaitIsBounded ==
    /\ \A h \in Handlers : iteration[h] <= MaxIterations
    /\ \A e \in SuspendedOpens :
         /\ e.how = "timeout" => ~waitForProxy
         /\ (e.wait.unsetAtArrival /\ e.wait.lastBuild = "none") => e.proxy = NoProxy

C5_BuildThenRelease ==
    \A m \in Indices("match") :
      (stepLog[m][3] /\ stepLog[m][2] = "build") =>
        /\ proxy = request.client
        /\ ~waitForProxy
        /\ \E p \in Indices("proxy"), w \in Indices("wait") :
             p < w /\ stepLog[p][2] = request.client /\ stepLog[w][2] = FALSE

C6_TokenPath ==
    (InCase("open") /\ HasOfs(localStorage.applications)) =>
      LET application == FirstOfs(JSONparse(localStorage.applications))
          emitted == Sends("callProcedure")
      IN /\ Cardinality(emitted) = 1
         /\ Cardinality(Posts("callProcedure")) = (IF originUrl # <<>> THEN 1 ELSE 0)
         /\ callId # Undefined
         /\ \A s \in emitted :
              /\ stepLog[s][2] = [apiVersion |-> 1, method |-> "callProcedure",
                                  callId |-> callId, procedure |-> "getAccessToken",
                                  params |-> [applicationKey |-> application.key]]
              /\ \E b \in Indices("store") :
                   b < s /\ stepLog[b][2] = "baseURL" /\ stepLog[b][3] = application.resourceUrl
         /\ localStorage.baseURL = <<"text", application.resourceUrl>>

\* an open processed with a registry of two "ofs" entries: one request, for the first
C6_Witness ==
    /\ InCase("open") /\ HasEvent("sleep")
    /\ localStorage.applications = JSONstringify(RegTwo)
    /\ Cardinality(Sends("callProcedure")) = 1
    /\ localStorage.baseURL = <<"text", "U2">>

(***************************************************************************)
(* C7  the inline-credentials path                                         *)
(***************************************************************************)
FullCredentials(securedData) ==
    \A f \in {"ofsInstance", "ofsClientId", "ofsClientSecret"} :
      f \in DOMAIN securedData /\ securedData[f] # ""

\* C7: an open carrying the three credentials while the registry has no
\* "ofs" entry builds the proxy from them and runs the open extension point
\* in the same task, with no suspension and no callProcedure; with an "ofs"
\* entry in the registry the task builds no proxy.
C7_InlineCredentials ==
    \A s \in Indices("securedData") :
      (Len(stepLog[s]) = 2 /\ FullCredentials(stepLog[s][2])) =>
        LET securedData == stepLog[s][2]
            client == [kind |-> "credentials", instance |-> securedData.ofsInstance,
                       clientId |-> securedData.ofsClientId,
                       clientSecret |-> securedData.ofsClientSecret]
        IN IF HasOfs(localStorage.applications)
           THEN ~ProxyBuilt /\ ~HasEvent("open")
           ELSE /\ proxy = client
                /\ \E o \in Indices("open") :
                     stepLog[o][2].handler = 0 /\ stepLog[o][2].proxy = client
                /\ Sends("callProcedure") = {}
                /\ ~HasEvent("sleep")
                /\ ~waitForProxy

\* the synchronous construction from inline credentials has happened
C7_Witness ==
    /\ \E s \in Indices("securedData") : Len(stepLog[s]) = 2 /\ FullCredentials(stepLog[s][2])
    /\ ~HasOfs(localStorage.applications)
    /\ \E o \in Indices("open") : stepLog[o][2].proxy.kind = "credentials"

(***************************************************************************)
(* C8  dispatch                                                            *)
(***************************************************************************)
Recognized == {"init", "open", "updateResult", "callProcedureResult", "wakeup", "error"}

UnknownMethodRaised == \E t \in Indices("throw") : stepLog[t][2] = "Unknown method"

\* C8: a delivery whose method is recognized selects exactly one case, the
\* one of that method, and raises no "Unknown method"; a delivery whose
\* method is neither recognized nor "no method" raises "Unknown method" and
\* reaches no handler and no extension point.
C8_Dispatch ==
    \A r \in Indices("received") :
      LET method == stepLog[r][2].method IN
      /\ method \in Recognized =>
           /\ Cardinality(Indices("case")) = 1
           /\ InCase(method)
           /\ ~UnknownMethodRaised
      /\ method \notin Recognized \cup {"no method"} =>
           /\ UnknownMethodRaised
           /\ \A c \in Indices("case") : stepLog[c][2] = "default"
           /\ ~HasEvent("ext") /\ ~HasEvent("open") /\ ~HasEvent("send")

\* an envelope with a method outside the protocol has been dispatched
C8_Witness ==
    /\ \E r \in Indices("received") : stepLog[r][2].method = "close"
    /\ UnknownMethodRaised

(***************************************************************************)
(* C9  malformed input                                                     *)
(***************************************************************************)
\* the task processed a raw input that is no JSON object
MalformedDelivery == \E r \in Indices("received") : ~stepLog[r][2].parsable

\* parse returned the defaults and the task did nothing but discard
Discarded ==
    /\ \A r \in Indices("received") :
         stepLog[r][2].method = "no method" /\ stepLog[r][2].apiVersion = -1
    /\ \A i \in 1..Len(stepLog) : stepLog[i][1] \in {"received", "case", "console.warn"}
    /\ InCase("no method")

\* C9: for a raw input that is no parsable envelope, parse returns method
\* "no method" and apiVersion -1 without raising, and the dispatch is a
\* discard: no extension point, nothing sent, nothing raised, and proxy,
\* callId, waitForProxy and the persisted properties keep their values.
C9_MalformedDiscarded ==
    [][MalformedDelivery' =>
         /\ Discarded'
         /\ proxy' = proxy /\ callId' = callId /\ waitForProxy' = waitForProxy
         /\ localStorage' = localStorage /\ pc' = pc]_vars

\* a malformed input has been discarded while an open was suspended
C9_Witness == MalformedDelivery /\ HasEvent("console.warn") /\ Pending

(***************************************************************************)
(* C10  the init handshake                                                 *)
(***************************************************************************)
\* C10: in the task of an init envelope the registry, if the envelope has
\* one, is persisted before the init extension point starts; an initEnd is
\* handed to the outbound channel only by the callback that receives the
\* result of the init extension point, once, with that result as content
\* (the shipped init: {apiVersion: 1, method: "initEnd"}); an init whose
\* extension point has not completed, or has failed, sends nothing.  The
\* envelope is posted when the frame has an origin to post to.
C10_InitHandshake ==
    /\ \A x \in Indices("ext") : stepLog[x][2] = "init" =>
         /\ \A r \in Indices("received") : stepLog[r][2].registry =>
              /\ \E b \in Indices("store") : b < x /\ stepLog[b][2] = "applications"
                                             /\ localStorage.applications = JSONstringify(stepLog[b][3])
         /\ \A d \in Indices("resolved") : x < d /\ stepLog[d][2] = [apiVersion |-> 1, method |-> "initEnd"]
    /\ \A s \in Sends("initEnd") :
         s > 1 /\ stepLog[s - 1][1] = "resolved" /\ stepLog[s - 1][2] = stepLog[s][2]
    /\ \A d \in Indices("resolved") :
         /\ Indices("send") = {d + 1}
         /\ stepLog[d + 1][2] = stepLog[d][2]
         /\ Cardinality(Indices("post")) = (IF originUrl # <<>> THEN 1 ELSE 0)
         /\ \A p \in Indices("post") : stepLog[p][2] = stepLog[d][2]
    /\ (HasEvent("ext") /\ ~HasEvent("resolved")) => ~HasEvent("send")
    /\ HasEvent("rejected") => ~HasEvent("send")

\* the promise of an overridden init has resolved with its own content
C10_Witness ==
    /\ ~HasEvent("ext")
    /\ \E d \in Indices("resolved") :
         /\ stepLog[d][2] = [apiVersion |-> 1, method |-> "initEnd", wakeupNeeded |-> TRUE]
         /\ Sends("initEnd") = {d + 1}

(***************************************************************************)
(* Two plugin instances in one frame.  Each constructor registers its own  *)
(* listener on window (setup), so one message event runs _getWebMessage of *)
(* instance 1 up to its first await, then that of instance 2, in one task. *)
(* globalThis.callId and globalThis.waitForProxy are the same two          *)
(* variables for both.  The instances persist under their own tags; they   *)
(* see the same envelopes, so their stored registries are equal and        *)
(* localStorage stands for both.  proxy is the proxy of instance 1.        *)
(* Handler slot i is the suspended open of instance i.                     *)
(***************************************************************************)
Instances == {1, 2}

\* what _createProxy and the shipped open path log for one instance
InstanceOpenLog(i, path, applications, newProxy) ==
    << <<"instance", i>>, <<"case", "open">>, <<"wait", FALSE>> >>
    \o (IF path = "token"
        THEN TokenRequestLog(applications, TokenRequests(applications), _generateCallId(i))
             \o << <<"sleep", i>> >>
        ELSE (IF path = "inline" THEN << <<"proxy", newProxy>> >> ELSE <<>>)
             \o << <<"open", [handler |-> 0, how |-> "sync", proxy |-> newProxy,
                              expected |-> request.client, wait |-> NoObs]>> >>)

\* an init envelope, handled by both listeners (shipped init)
TwoInit(raw) ==
    LET message == parse(raw)
        one(i) == << <<"instance", i>>, <<"case", "init">> >> \o _storeInitDataLog(message)
                  \o _init \o _initThen(DefaultInitEnd)
    IN
    /\ Route(message.method) = "init"
    /\ localStorage' = _storeInitData(message)
    /\ stepLog' = << Received(raw) >> \o one(1) \o one(2)
    /\ UNCHANGED <<listeners, proxy, callId, waitForProxy, document, pc, iteration, timers, initPc,
                   obs, request>>

\* an open envelope, handled by both listeners: each runs lines 114-117
TwoOpen(raw) ==
    LET message == parse(raw)
        stored == getInitProperty("applications")
        path == _createProxyPath(stored, message)
        applications == JSONparse(stored)
        newProxy == IF path = "inline" THEN CredentialsClient(message.securedData) ELSE proxy
    IN
    /\ Route(message.method) = "open"
    /\ stepLog' = << Received(raw) >>
                   \o InstanceOpenLog(1, path, applications, newProxy)
                   \o InstanceOpenLog(2, path, applications, newProxy)
    /\ proxy' = newProxy
    /\ IF path = "token"
       THEN LET requests == TokenRequests(applications)
                last == applications[requests[Len(requests)]]
            IN
            /\ \A i \in Instances : pc[i] = "idle"
            /\ localStorage' = storeInitProperty(localStorage, "baseURL",
                                                 <<"text", ToStr(last.resourceUrl)>>)
            \* instance 1 assigns its id, then instance 2 assigns its own
            /\ callId' = _generateCallId(2)
            /\ waitForProxy' = TRUE
            /\ pc' = [h \in Handlers |-> IF h \in Instances THEN "sleep" ELSE pc[h]]
            /\ iteration' = [h \in Handlers |-> IF h \in Instances THEN 0 ELSE iteration[h]]
            /\ timers' = timers \o <<1, 2>>
            /\ obs' = [h \in Handlers |->
                         IF h \in Instances
                         THEN [NoObs EXCEPT !.unsetAtArrival = (proxy = NoProxy)]
                         ELSE obs[h]]
            /\ request' = [request EXCEPT !.url = ToStr(last.resourceUrl)]
       ELSE /\ waitForProxy' = FALSE
            /\ obs' = [h \in Handlers |->
                         IF pc[h] = "sleep" /\ path = "inline"
                         THEN [obs[h] EXCEPT !.lastBuild = "inline"]
                         ELSE obs[h]]
            /\ UNCHANGED <<localStorage, callId, pc, iteration, timers, request>>
    /\ UNCHANGED <<listeners, document, initPc>>

\* a callProcedureResult envelope, handled by both listeners: both compare
\* its callId with the one globalThis.callId
TwoResult(raw) ==
    LET message == parse(raw)
        outcome == MatchedOutcome(message)
        client == TokenClient(getInitProperty("baseURL"), message.resultData)
        sameId == SameId(message)
        one(i) == << <<"instance", i>>, <<"case", "callProcedureResult">> >>
                  \o (IF IsMatch(message)
                      THEN << <<"match", outcome, sameId>> >>
                           \o (IF outcome = "build"
                               THEN << <<"proxy", client>>, <<"wait", FALSE>> >> ELSE <<>>)
                      ELSE << <<"mismatch", sameId>> >>
                           \o ExtensionPoint("callProcedureResult",
                                             "CALLPROCEDURERESULT Method not implemented.",
                                             FALSE))
    IN
    /\ Route(message.method) = "callProcedureResult"
    /\ stepLog' = << Received(raw) >> \o one(1) \o one(2)
    /\ obs' = ObserveResult(message, IsMatch(message) /\ outcome = "build")
    /\ IF IsMatch(message) /\ outcome = "build"
       THEN /\ proxy' = client
            /\ waitForProxy' = FALSE
            /\ request' = [request EXCEPT !.client = client]
       ELSE UNCHANGED <<proxy, waitForProxy, request>>
    /\ UNCHANGED <<listeners, localStorage, callId, document, pc, iteration, timers, initPc>>

NextInstances ==
    \/ \E raw \in RawOverlap : TwoInit(raw)
    \/ \E raw \in RawOverlap : TwoOpen(raw)
    \/ \E raw \in RawOverlap : TwoResult(raw)
    \/ \E i \in Instances : Poll(i)

SpecInstances == Init /\ [][NextInstances]_vars

(***************************************************************************)
(* C11  instance isolation                                                 *)
(***************************************************************************)
\* C11: with two instances in the frame, the pending call id of a suspended
\* instance is not overwritten by the other instance, every result carrying
\* its call id is accepted as its match, and its open extension point runs
\* only after a result with its own call id or after its own bound.
C11_InstanceIsolation ==
    /\ \A i \in Instances :
         pc[i] = "sleep" =>
           /\ callId = _generateCallId(i)
           /\ obs[i].ownResult => obs[i].matched
    /\ \A e \in SuspendedOpens : e.how = "flag" => e.wait.ownResult

(***************************************************************************)
(* C12  serial processing                                                  *)
(***************************************************************************)
\* C12: while an open is suspended awaiting the proxy, no task invokes the
\* extension point of an envelope delivered after it: no init, updateResult,
\* wakeup, error or callProcedureResult extension point and no open
\* extension point of a later open runs before the suspended open's own.
C12_SerialProcessing ==
    (\E h \in Handlers : pc[h] = "sleep") =>
      /\ ~HasEvent("ext")
      /\ \A o \in Indices("open") : stepLog[o][2].handler # 0


(***************************************************************************)
(* Outbound operations called by the plugin's own code: close, update,     *)
(* callProcedure, sendMessage, setup, and the initEnd of an overridden     *)
(* init, in any frame.                                                     *)
(***************************************************************************)
Schemes == {"https", "http"}
Hosts == {<<"host.example">>, <<"localhost", ":", "8080">>}
Paths == {<<>>, <<"/">>, <<"/", "app", "/", "path">>}

\* document.referrer and location.ancestorOrigins of the frames considered
Frames ==
    { [referrer |-> Url(s, h, p), ancestorOrigins |-> <<>>] :
        s \in Schemes, h \in Hosts, p \in Paths }
    \cup { [referrer |-> <<>>, ancestorOrigins |-> <<Url(s, h, <<>>)>>] :
             s \in Schemes, h \in Hosts }
    \cup { [referrer |-> Url("https", <<"host.example">>, <<"/", "app">>),
            ancestorOrigins |-> <<Url("https", <<"other.example">>, <<>>)>>],
           [referrer |-> <<>>, ancestorOrigins |-> <<>>] }

\* the data argument of close, update, callProcedure and sendMessage (any):
\* omitted, or an object, whose fields are spread after apiVersion and method
NoData == <<>>
Datas ==
    { NoData,
      [activity |-> "A1"],
      [method |-> "open", activity |-> "A1"],
      [apiVersion |-> 2] }

\* the members of enum Method
Methods == {"close", "open", "update", "updateResult", "init", "ready", "initEnd",
            "callProcedureResult", "callProcedure"}

\* values an overridden init resolves its promise with (Promise<OFSMessage>)
InitMessages == InitResults \cup {NewOFSMessage, [apiVersion |-> 1, method |-> "close"]}

\* arguments of a call of setup
SetupArguments ==
    [sendInitData : {<<>>, <<TRUE>>, <<FALSE>>},
     enableBackButton : {<<>>, <<FALSE>>},
     showHeader : {<<>>, <<FALSE>>},
     sendMessageAsJsObject : {<<>>, <<TRUE>>},
     dataItems : {<<>>, << <<"aid">> >>}]

close(data) == sendMessage("close", data)
update(data) == sendMessage("update", data)

\* a method of the plugin is called by the plugin's code: the task is the call
Call(name, arguments, log) ==
    /\ stepLog' = << <<"call", name, arguments>> >> \o log
    /\ UNCHANGED <<localStorage, proxy, callId, waitForProxy, document, pc, iteration,
                   timers, initPc, obs, request>>

CallClose(data) == Call("close", <<data>>, close(data)) /\ UNCHANGED listeners
CallUpdate(data) == Call("update", <<data>>, update(data)) /\ UNCHANGED listeners
CallCallProcedure(data) ==
    Call("callProcedure", <<data>>, callProcedure(data)) /\ UNCHANGED listeners
CallSendMessage(method, data) ==
    Call("sendMessage", <<method, data>>, sendMessage(method, data)) /\ UNCHANGED listeners

\* setup adds a listener at every call: this._getWebMessage.bind(this) is a new
\* function each time, so addEventListener never finds it already registered
CallSetup(arguments) ==
    /\ listeners < MaxListeners
    /\ Call("setup", arguments, setup(arguments))
    /\ listeners' = listeners + 1

NextOutbound ==
    \/ \E data \in Datas : CallClose(data)
    \/ \E data \in Datas : CallUpdate(data)
    \/ \E data \in Datas : CallCallProcedure(data)
    \/ \E method \in Methods, data \in Datas : CallSendMessage(method, data)
    \/ \E arguments \in SetupArguments : CallSetup(arguments)
    \/ \E raw \in RawInit, overridden \in BOOLEAN : CaseInit(raw, overridden)
    \/ \E i \in InitSlots, messageData \in InitMessages : InitResolve(i, messageData)
    \/ \E i \in InitSlots : InitReject(i)

SpecOutbound == InitIn(Frames) /\ [][NextOutbound]_vars

\* calls of the named plugin method in the task, and what a send or post carried
Calls(name) == {i \in Indices("call") : stepLog[i][2] = name}
Delivered == {stepLog[i] : i \in Indices("post")}
Handed == {stepLog[i][2] : i \in Indices("send")}

(* C13. Outbound destination safety: an envelope handed to the send
   operation (ready, initEnd, close, update, callProcedure) is posted to the
   parent exactly when the referrer, or else the first ancestor origin, is
   non-empty; in a frame with neither nothing is posted; the target origin of
   a post is the origin derived from that source and is never empty nor the
   wildcard. *)
C13_DestinationSafety ==
    /\ Cardinality(Indices("post")) = (IF originUrl # <<>> THEN Cardinality(Indices("send")) ELSE 0)
    /\ (document.referrer = <<>> /\ document.ancestorOrigins = <<>>) => Delivered = {}
    /\ \A i \in Indices("post") :
         /\ i > 1 /\ stepLog[i - 1][1] = "send" /\ stepLog[i - 1][2] = stepLog[i][2]
         /\ stepLog[i][3] \notin {<<>>, <<"*">>}
         /\ stepLog[i][3] = _getOriginURL(IF document.referrer # <<>> THEN document.referrer
                                          ELSE document.ancestorOrigins[1])

\* a frame with neither referrer nor ancestor origin: an update is handed to
\* the send operation and nothing is posted; elsewhere the update is posted
C13_Witness ==
    /\ Calls("update") # {}
    /\ Sends("update") # {}
    /\ originUrl = <<>>
    /\ Delivered = {}

(* C14. Origin derivation: for every referrer of the form scheme://host/path
   the target origin of what is posted is exactly scheme://host: the scheme
   and the host of the referrer, without the path. *)
C14_OriginDerivation ==
    \A scheme \in Schemes, host \in Hosts, path \in Paths :
      document.referrer = Url(scheme, host, path) =>
        \A d \in Delivered : d[3] = Url(scheme, host, <<>>)

(* C15. Outbound envelope well-formedness: every envelope posted to the
   parent has apiVersion 1 and a method among ready, close, update,
   callProcedure and initEnd, whatever data the plugin passes to close,
   update, callProcedure or sendMessage and whatever init resolves with. *)
OutboundMethods == {"ready", "close", "update", "callProcedure", "initEnd"}
C15_EnvelopeWellFormed ==
    \A d \in Delivered : d[2].apiVersion = 1 /\ d[2].method \in OutboundMethods

(* C16. Ready handshake flags: the ready envelope of a call of setup
   announces the flags the call supplied, each omitted flag having its
   documented default (sendInitData true, enableBackButton true, showHeader
   true, sendMessageAsJsObject false, dataItems none); two calls of setup
   with different flags hand different ready envelopes to the send
   operation. *)
Flags(arguments) ==
    [sendInitData |-> Param(arguments.sendInitData, TRUE),
     enableBackButton |-> Param(arguments.enableBackButton, TRUE),
     showHeader |-> Param(arguments.showHeader, TRUE),
     sendMessageAsJsObject |-> Param(arguments.sendMessageAsJsObject, FALSE),
     dataItems |-> arguments.dataItems]
Announces(message, flags) ==
    /\ \A f \in {"sendInitData", "enableBackButton", "showHeader", "sendMessageAsJsObject"} :
         Has(message, f) /\ message[f] = flags[f]
    /\ IF flags.dataItems = <<>> THEN ~Has(message, "dataItems")
       ELSE Has(message, "dataItems") /\ message.dataItems = flags.dataItems[1]
ReadyOf(arguments) ==
    LET log == setup(arguments)
    IN {log[i][2] : i \in {j \in 1..Len(log) : log[j][1] = "send"}}
C16_ReadyFlags ==
    /\ \A c \in Calls("setup") :
         /\ Sends("ready") # {}
         /\ \A r \in Sends("ready") : Announces(stepLog[r][2], Flags(stepLog[c][3]))
    /\ \A a, b \in SetupArguments : Flags(a) # Flags(b) => ReadyOf(a) # ReadyOf(b)


(* C17. Frame of the acquisition state: a task changes the proxy or the
   pending call id only if it handles an open envelope or a successful
   callProcedureResult carrying the pending call id; the pending call id is
   changed by open envelopes only; a proxy once set never becomes absent, and
   it is replaced only by such a task, which constructs a client. *)
AcquisitionTask ==
    \/ InCase("open")
    \/ \E m \in Indices("match") : stepLog[m][2] = "build" /\ stepLog[m][3]
C17_AcquisitionFrame ==
    [][ /\ (proxy' # proxy \/ callId' # callId) => AcquisitionTask'
        /\ callId' # callId => InCase("open")'
        /\ proxy # NoProxy => proxy' # NoProxy
        /\ (proxy # NoProxy /\ proxy' # proxy) => HasEvent("proxy")'
      ]_vars

(* C18. Mandatory-override extension points: when the shipped error, wakeup
   or callProcedureResult extension point runs (error envelope, wakeup
   envelope, callProcedureResult whose call id is not the pending one), the
   task ends there with the failure "<METHOD> Method not implemented.", and
   that task leaves the proxy, the pending call id and the readiness flag
   unchanged and hands nothing to the send operation. *)
NotImplementedFailure ==
    [error |-> "ERROR Method not implemented.",
     wakeup |-> "WAKEUP Method not implemented.",
     callProcedureResult |-> "CALLPROCEDURERESULT Method not implemented."]
ShippedExt ==
    {i \in Indices("ext") :
       /\ stepLog[i][2] \in DOMAIN NotImplementedFailure
       /\ stepLog[i][3] = "shipped"}
C18_NotImplemented ==
    [][ \A i \in ShippedExt' :
          /\ Len(stepLog') = i + 1
          /\ stepLog'[i + 1][1] = "throw"
          /\ stepLog'[i + 1][2] = NotImplementedFailure[stepLog'[i][2]]
          /\ \E c \in Indices("case")' : stepLog'[c][2] = stepLog'[i][2]
          /\ UNCHANGED <<proxy, callId, waitForProxy>>
          /\ ~HasEvent("send")' /\ ~HasEvent("post")'
      ]_vars

\* a response with another call id reaches the shipped callProcedureResult
\* while a token request is pending and an open is suspended
C18_Witness ==
    /\ \E i \in ShippedExt : stepLog[i][2] = "callProcedureResult"
    /\ waitForProxy /\ callId = _generateCallId(1) /\ pc[1] = "sleep"

(* C19. Overlapping opens: while several opens are suspended, a suspended
   open whose wait did not time out is released only after the response
   carrying its own call id was processed and a response was accepted as
   successful match during its wait; and a response carrying the call id of
   an open that is still suspended is accepted as a match. *)
C19_OverlappingOpens ==
    [][ /\ \A e \in SuspendedOpens' :
             e.how = "flag" => e.wait.ownResult /\ e.wait.success
        /\ \A h \in Handlers :
             (pc[h] = "sleep" /\ ~obs[h].ownResult /\ obs'[h].ownResult)
               => HasEvent("match")'
      ]_vars

(* C20. A token request is resolved at most once: in the task that follows
   the successful acceptance of a callProcedureResult carrying the pending
   call id, or that follows the timeout of the wait for it and the run of the
   open extension point, a callProcedureResult carrying that call id is not
   accepted as a match and constructs no proxy. *)
Resolved ==
    \/ \E m \in Indices("match") : stepLog[m][2] = "build" /\ stepLog[m][3]
    \/ \E e \in SuspendedOpens : e.how = "timeout"
C20_ResolvedAtMostOnce ==
    [][ (Resolved /\ InCase("callProcedureResult")') =>
          /\ \A m \in Indices("match")' : ~stepLog'[m][3]
          /\ ~HasEvent("proxy")'
      ]_vars


(* C21. With no token request ever emitted (the pending call id was never
   assigned), the task of a callProcedureResult accepts nothing as a match,
   whatever call id the envelope carries and also when it carries none: it
   takes the mismatch path and constructs no proxy. *)
C21_NoRequestNoMatch ==
    (callId = Undefined /\ InCase("callProcedureResult")) =>
      /\ ~HasEvent("match")
      /\ HasEvent("mismatch")
      /\ ~HasEvent("proxy")


(***************************************************************************)
(* Setup: the constructor with or without initOverride, setup called by    *)
(* the plugin's code, and message events, which run every listener the     *)
(* instance has registered.  The host sends neither open nor               *)
(* callProcedureResult here, and the extension points are the shipped ones.*)
(***************************************************************************)
RawSetup == RawHandshake \cup RawUnknown \cup RawNoMethod

\* what one run of _getWebMessage does with the envelope
Handling(raw) ==
    LET message == parse(raw)
        label == Route(message.method)
    IN << Received(raw), <<"case", label>> >>
       \o CASE label = "init" ->
                 _storeInitDataLog(message) \o _init \o _initThen(DefaultInitEnd)
            [] label \in {"updateResult", "wakeup", "error"} ->
                 ExtensionPoint(label, NotImplemented(label), FALSE)
            [] label = "no method" -> << <<"console.warn", "Message discarded">> >>
            [] label = "default" -> << <<"throw", "Unknown method">> >>

RECURSIVE Times(_, _)
Times(log, n) == IF n = 0 THEN <<>> ELSE log \o Times(log, n - 1)

\* the window dispatches a message event: each registered listener runs
\* _getWebMessage on it, in the order of registration
MessageEvent(raw) ==
    LET message == parse(raw) IN
    /\ Route(message.method) \notin {"open", "callProcedureResult"}
    /\ localStorage' = (IF listeners > 0 /\ Route(message.method) = "init"
                        THEN _storeInitData(message) ELSE localStorage)
    /\ stepLog' = << <<"message", Received(raw)[2]>> >> \o Times(Handling(raw), listeners)
    /\ UNCHANGED <<listeners, proxy, callId, waitForProxy, document, pc, iteration, timers,
                   initPc, obs, request>>

InitSetup == \E initOverride \in BOOLEAN : constructor(Documents, initOverride)

NextSetup ==
    \/ \E arguments \in SetupArguments : CallSetup(arguments)
    \/ \E raw \in RawSetup : MessageEvent(raw)

SpecSetup == InitSetup /\ [][NextSetup]_vars

(* C22. Every inbound envelope is dispatched exactly once by the instance
   once setup has been called, whether by the constructor, by the plugin's
   code after a construction with initOverride, or more than once; and while
   setup has not been called (initOverride), no ready envelope has been sent
   and no inbound envelope is handled. *)
C22_DispatchedOnce ==
    /\ HasEvent("message") =>
         Cardinality(Indices("case")) = (IF listeners = 0 THEN 0 ELSE 1)
    /\ listeners = 0 => ~HasEvent("send") /\ ~HasEvent("received")
====
